---- MODULE Spec2Model ----
(***************************************************************************)
(* Enrollment and matriculation numbering of the school_management         *)
(* service (src/src/main.rs).  The handlers are stateless; the only shared *)
(* state is the students table.  Every handler issues one SQL statement,   *)
(* except assign_matric_number, which issues a COUNT and, in a later       *)
(* statement, a conditional UPDATE: other requests run between the two.    *)
(***************************************************************************)
EXTENDS Integers, Sequences, FiniteSets, Bags, TLC

\* ------------------------------------------------------------------ bounds

\* Number of assign_matric_number requests in flight at the same time.
MaxInFlight == 2

\* Number of rows the students table may hold.
MaxStudents == 3

\* ------------------------------------------------------------------ inputs

\* CreateStudentRequest payloads (username, password, name).
RegInputs ==
    { <<"alice", "pw1", "Alice A">>,
      <<"alice", "pw2", "Alice B">>,
      <<"bob",   "pw1", "Bob B">> }

Usernames == {"alice", "bob", "carol"}

\* LoginRequest payloads (username, password).
LoginInputs ==
    { <<"alice", "pw1">>, <<"alice", "pw2">>, <<"carol", "pw1">> }

\* ------------------------------------------------------------ Option, rows

\* Option<String>: None is the SQL NULL, Some(x) a present value.
None == << >>

Some(x) == <<x>>

\* The plaintext stored in place of its digest.
hash_skipped(password) == <<password>>

\* bcrypt::hash: a digest that embeds the algorithm tag and is not the plaintext.
hash(password) == <<"$2b$", password>>

\* A stored password that bcrypt cannot parse as a digest.
MalformedDigest == <<"plain">>

\* bcrypt::verify: Err on a digest it cannot parse, else Ok(matches).
verify(password, digest) ==
    IF Len(digest) = 2 /\ digest[1] = "$2b$"
    THEN [err |-> FALSE, ok |-> digest[2] = password]
    ELSE [err |-> TRUE,  ok |-> FALSE]

\* A row of the students table present before the service started, whose
\* password column does not hold a bcrypt digest.
LegacyRow ==
    [ id |-> 1, username |-> "carol", password |-> MalformedDigest,
      name |-> "Carol C", matric_number |-> None ]

\* A mapping that hands out the row as stored.
to_response_whole_row(student) == student

\* Student::to_response: the public fields of a row.
to_response(student) ==
    [ username      |-> student.username,
      name          |-> student.name,
      matric_number |-> student.matric_number ]

\* ----------------------------------------------------------------- ApiError

NotFound == [variant |-> "NotFound", detail |-> ""]

Unauthorized == [variant |-> "Unauthorized", detail |-> ""]

Conflict == [variant |-> "Conflict", detail |-> ""]

BadRequest(detail) == [variant |-> "BadRequest", detail |-> detail]

InternalServerError == [variant |-> "InternalServerError", detail |-> ""]

\* #[error(...)] Display of ApiError; BadRequest appends its detail.
to_string(e) ==
    CASE e.variant = "NotFound"            -> <<"Student not found">>
      [] e.variant = "Unauthorized"        -> <<"Invalid credentials">>
      [] e.variant = "Conflict"            -> <<"Username already exists">>
      [] e.variant = "BadRequest"          -> <<"Bad request: ", e.detail>>
      [] e.variant = "InternalServerError" -> <<"Internal server error">>

\* IntoResponse for ApiError: (status, self.to_string()).
into_response(e) ==
    [ status |->
        CASE e.variant = "NotFound"            -> 404
          [] e.variant = "Unauthorized"        -> 401
          [] e.variant = "Conflict"            -> 409
          [] e.variant = "BadRequest"          -> 400
          [] e.variant = "InternalServerError" -> 500,
      text |-> to_string(e),
      json |-> << >> ]

\* Ok(Json(body)).
OkJson(body) == [status |-> 200, text |-> << >>, json |-> <<body>>]

\* format!("Password hashing failed: {}", e): the text of the bcrypt error is
\* appended to the message.
HashingFailedMsg == "Password hashing failed: <BcryptError>"

AssignConflictMsg == "Student not found or already has matric number"

\* ------------------------------------------------------ matriculation token

DigitChars == <<"0", "1", "2", "3", "4", "5", "6", "7", "8", "9">>

\* Decimal digits of n, most significant first.
RECURSIVE Digits(_)
Digits(n) ==
    IF n < 10 THEN <<DigitChars[n + 1]>>
    ELSE Digits(n \div 10) \o <<DigitChars[(n % 10) + 1]>>

\* {:0w}: left-pad with zeros to at least w characters.
RECURSIVE ZeroPad(_, _)
ZeroPad(s, w) == IF Len(s) >= w THEN s ELSE ZeroPad(<<"0">> \o s, w)

\* The token formatted from the count itself, not from count + 1.
matric_token_of_count(count) == <<"M", "A", "T">> \o ZeroPad(Digits(count), 5)

\* A token that runs one ahead of the next sequence value.
matric_token_ahead(count) == <<"M", "A", "T">> \o ZeroPad(Digits(count + 2), 5)

\* format!("MAT{:05}", count + 1)
matric_token(count) == <<"M", "A", "T">> \o ZeroPad(Digits(count + 1), 5)

\* ------------------------------------------------------------------- state

VARIABLES
    store,       \* the students table: rows in insertion order
    pending,     \* the assign_matric_number requests between COUNT and UPDATE
    resp,        \* the request and response of the latest handler step
    registered,  \* payloads of the create_student calls that returned Ok
    wins         \* per username, the assign_matric_number calls that returned Ok

vars == <<store, pending, resp, registered, wins>>

NoResp == [op |-> "none", username |-> "", password |-> "", name |-> "",
           token |-> << >>, out |-> OkJson(<< >>)]

\* A handler that ended on an infrastructure failure: the response does not
\* depend on the request.
FailResp(op, e) ==
    [ op |-> op, username |-> "", password |-> "", name |-> "",
      token |-> << >>, out |-> into_response(e) ]

\* SELECT ... WHERE username = $1
RowsByUsername(table, username) ==
    { i \in DOMAIN table : table[i].username = username }

\* SELECT COUNT(*) FROM students WHERE matric_number IS NOT NULL
count_matriculated(table) ==
    Cardinality({ i \in DOMAIN table : table[i].matric_number # None })

\* First row of a result set, as fetch_one / fetch_optional return it.
First(S) == CHOOSE i \in S : \A j \in S : i <= j

Init ==
    /\ store \in { << >>, <<LegacyRow>> }
    /\ pending = EmptyBag
    /\ resp = NoResp
    /\ registered = {}
    /\ wins = [u \in Usernames |-> 0]

\* ------------------------------------------------------------ create_student

\* A table without the unique constraint: no INSERT is rejected.
students_username_key_missing(table, username) == FALSE

\* The unique constraint students_username_key rejects the INSERT.
students_username_key(table, username) ==
    RowsByUsername(table, username) # {}

\* An INSERT that also stores the next matriculation number.
InsertedRow_numbered(table, username, digest, name) ==
    [ id |-> Len(table) + 1, username |-> username, password |-> digest,
      name |-> name,
      matric_number |-> Some(matric_token(count_matriculated(table))) ]

\* INSERT INTO students (username, password, name) ... RETURNING: the new row.
\* matric_number is not in the column list, so it is stored as NULL.
InsertedRow(table, username, digest, name) ==
    [ id |-> Len(table) + 1, username |-> username, password |-> digest,
      name |-> name, matric_number |-> None ]

RegResp(payload, out) ==
    [ op |-> "register", username |-> payload[1], password |-> payload[2],
      name |-> payload[3], token |-> << >>, out |-> out ]

\* hash(...) returned Err: the handler returns before it reaches the store.
create_student_hash_err(payload) ==
    /\ resp' = FailResp("register", BadRequest(HashingFailedMsg))
    /\ UNCHANGED <<store, pending, registered, wins>>

\* The INSERT failed with an error other than the username constraint.
create_student_db_err(payload) ==
    /\ resp' = FailResp("register", InternalServerError)
    /\ UNCHANGED <<store, pending, registered, wins>>

\* The INSERT violated students_username_key.
create_student_conflict(payload) ==
    /\ students_username_key(store, payload[1])
    /\ resp' = RegResp(payload, into_response(Conflict))
    /\ UNCHANGED <<store, pending, registered, wins>>

\* The INSERT stored the row and returned it.
create_student_ok(payload) ==
    /\ ~ students_username_key(store, payload[1])
    /\ Len(store) < MaxStudents
    /\ LET row == InsertedRow(store, payload[1], hash(payload[2]), payload[3])
       IN /\ store' = Append(store, row)
          /\ resp' = RegResp(payload, OkJson(to_response(row)))
    /\ registered' = registered \cup {payload}
    /\ UNCHANGED <<pending, wins>>

create_student ==
    \E payload \in RegInputs :
        \/ create_student_hash_err(payload)
        \/ create_student_db_err(payload)
        \/ create_student_conflict(payload)
        \/ create_student_ok(payload)

\* ------------------------------------------------------ assign_matric_number

\* The response to a request whose UPDATE was answered; token is the
\* matric_number the handler formatted from its count.
AssignResp(req, out) ==
    [ op |-> "assign", username |-> req.username, password |-> "", name |-> "",
      token |-> matric_token(req.count), out |-> out ]

\* A request between its two statements: the path parameter and the count read.
InFlight(username, count) == [username |-> username, count |-> count]

\* SELECT COUNT(*) succeeded: the request holds the count it read.
assign_count_ok(username) ==
    /\ BagCardinality(pending) < MaxInFlight
    /\ pending' = pending (+) SetToBag({InFlight(username, count_matriculated(store))})
    /\ resp' = NoResp
    /\ UNCHANGED <<store, registered, wins>>

\* SELECT COUNT(*) failed: the handler returns at the first `?`.
assign_count_db_err(username) ==
    /\ BagCardinality(pending) < MaxInFlight
    /\ resp' = FailResp("assign", InternalServerError)
    /\ UNCHANGED <<store, pending, registered, wins>>

\* The WHERE clause without its matric_number IS NULL condition.
UpdateMatches_any_row(row, username) ==
    row.username = username

\* WHERE username = $2 AND matric_number IS NULL
UpdateMatches(row, username) ==
    row.username = username /\ row.matric_number = None

UpdateTargets(table, username) ==
    { i \in DOMAIN table : UpdateMatches(table[i], username) }

\* The UPDATE without its username condition: every row without a number
\* takes the token.
UpdatedTable_every_null_row(table, username, token) ==
    [ i \in DOMAIN table |->
        IF table[i].matric_number = None
        THEN [table[i] EXCEPT !.matric_number = Some(token)]
        ELSE table[i] ]

\* UPDATE students SET matric_number = $1 WHERE ...
UpdatedTable(table, username, token) ==
    [ i \in DOMAIN table |->
        IF i \in UpdateTargets(table, username)
        THEN [table[i] EXCEPT !.matric_number = Some(token)]
        ELSE table[i] ]

\* Whether the table rejects storing token as a matric_number.  The store is
\* relied on for uniqueness of username and for the conditional update only:
\* no constraint of the table covers matric_number.
matric_number_rejected(table, token) == FALSE

\* The handler returns: the request is no longer in flight.
Return(req) == pending' = pending (-) SetToBag({req})

\* A failure reported after the row was written.
assign_update_db_err_after_write(req) ==
    /\ BagIn(req, pending)
    /\ Return(req)
    /\ store' = UpdatedTable(store, req.username, matric_token(req.count))
    /\ resp' = FailResp("assign", InternalServerError)
    /\ UNCHANGED <<registered, wins>>

\* The UPDATE failed.
assign_update_db_err(req) ==
    /\ BagIn(req, pending)
    /\ Return(req)
    /\ resp' = FailResp("assign", InternalServerError)
    /\ UNCHANGED <<store, registered, wins>>

\* NotFound when no row has the username, the BadRequest otherwise.
assign_none_error_tells_apart(table, username) ==
    IF RowsByUsername(table, username) = {}
    THEN NotFound
    ELSE BadRequest(AssignConflictMsg)

\* .ok_or_else(|| ApiError::BadRequest(...)): one error, whatever the reason
\* the UPDATE matched no row.
assign_none_error(table, username) == BadRequest(AssignConflictMsg)

\* A handler that reads the count again and tries once more when the UPDATE
\* matched no row.
assign_update_none_retry(req) ==
    /\ BagIn(req, pending)
    /\ UpdateTargets(store, req.username) = {}
    /\ pending' = (pending (-) SetToBag({req}))
                     (+) SetToBag({InFlight(req.username, count_matriculated(store))})
    /\ resp' = NoResp
    /\ UNCHANGED <<store, registered, wins>>

\* The UPDATE matched no row: fetch_optional returned None.
assign_update_none(req) ==
    /\ BagIn(req, pending)
    /\ UpdateTargets(store, req.username) = {}
    /\ Return(req)
    /\ resp' = AssignResp(req, into_response(assign_none_error(store, req.username)))
    /\ UNCHANGED <<store, registered, wins>>

\* The UPDATE matched: the row takes the token formatted from the count read.
assign_update_ok(req) ==
    /\ BagIn(req, pending)
    /\ UpdateTargets(store, req.username) # {}
    /\ ~ matric_number_rejected(store, matric_token(req.count))
    /\ LET token == matric_token(req.count)
           table == UpdatedTable(store, req.username, token)
           i     == First(UpdateTargets(store, req.username))
       IN /\ store' = table
          /\ resp' = AssignResp(req, OkJson(to_response(table[i])))
    /\ Return(req)
    /\ wins' = [wins EXCEPT ![req.username] = @ + 1]
    /\ UNCHANGED registered

assign_matric_number ==
    \/ \E username \in Usernames :
          \/ assign_count_ok(username)
          \/ assign_count_db_err(username)
    \/ \E req \in DOMAIN pending : assign_update_db_err(req)
    \/ \E req \in DOMAIN pending : assign_update_none(req)
    \/ \E req \in DOMAIN pending : assign_update_ok(req)

\* ------------------------------------------------------------- list_students

ListResp(out) ==
    [ op |-> "list", username |-> "", password |-> "", name |-> "",
      token |-> << >>, out |-> out ]

\* SELECT ... FROM students, each row mapped by to_response.  The statement
\* has no ORDER BY, so the body is the collection of profiles without order.
list_students_ok ==
    /\ resp' = ListResp(OkJson({ to_response(store[i]) : i \in DOMAIN store }))
    /\ UNCHANGED <<store, pending, registered, wins>>

list_students_db_err ==
    /\ resp' = FailResp("list", InternalServerError)
    /\ UNCHANGED <<store, pending, registered, wins>>

list_students ==
    \/ list_students_ok
    \/ list_students_db_err

\* ----------------------------------------------------- get_student_by_matric

\* Path parameters tried: the tokens an allocation can format.
LookupTokens == { matric_token(0), matric_token(1), matric_token(2) }

\* SELECT ... WHERE matric_number = $1
RowsByMatric(table, token) ==
    { i \in DOMAIN table : table[i].matric_number = Some(token) }

LookupResp(token, out) ==
    [ op |-> "lookup", username |-> "", password |-> "", name |-> "",
      token |-> token, out |-> out ]

get_student_by_matric_db_err(token) ==
    /\ resp' = FailResp("lookup", InternalServerError)
    /\ UNCHANGED <<store, pending, registered, wins>>

\* fetch_optional returned None.
get_student_by_matric_none(token) ==
    /\ RowsByMatric(store, token) = {}
    /\ resp' = LookupResp(token, into_response(NotFound))
    /\ UNCHANGED <<store, pending, registered, wins>>

\* fetch_optional returned a row; with several matching rows the statement
\* does not say which one comes first.
get_student_by_matric_ok(token) ==
    /\ \E i \in RowsByMatric(store, token) :
          resp' = LookupResp(token, OkJson(to_response(store[i])))
    /\ UNCHANGED <<store, pending, registered, wins>>

get_student_by_matric ==
    \E token \in LookupTokens :
        \/ get_student_by_matric_db_err(token)
        \/ get_student_by_matric_none(token)
        \/ get_student_by_matric_ok(token)

\* --------------------------------------------------------------------- login

LoginResp(username, password, out) ==
    [ op |-> "login", username |-> username, password |-> password,
      name |-> "", token |-> << >>, out |-> out ]

\* .ok_or(ApiError::NotFound) in place of Unauthorized.
LoginAbsentError_not_found == NotFound

\* .ok_or(ApiError::Unauthorized): no row has the username.
LoginAbsentError == Unauthorized

\* verify(...).map_err(|_| ApiError::Unauthorized): the digest is malformed.
LoginVerifyError == Unauthorized

\* if !verify(...) { return Err(ApiError::Unauthorized) }
LoginMismatchError == Unauthorized

\* The handler's result once the SELECT has answered.
login_result(table, username, password) ==
    IF RowsByUsername(table, username) = {}
    THEN into_response(LoginAbsentError)
    ELSE LET student == table[First(RowsByUsername(table, username))]
             v       == verify(password, student.password)
         IN IF v.err THEN into_response(LoginVerifyError)
            ELSE IF ~ v.ok THEN into_response(LoginMismatchError)
            ELSE OkJson(to_response(student))

login_db_err(username, password) ==
    /\ resp' = FailResp("login", InternalServerError)
    /\ UNCHANGED <<store, pending, registered, wins>>

login_answered(username, password) ==
    /\ resp' = LoginResp(username, password,
                         login_result(store, username, password))
    /\ UNCHANGED <<store, pending, registered, wins>>

login ==
    \E payload \in LoginInputs :
        \/ login_db_err(payload[1], payload[2])
        \/ login_answered(payload[1], payload[2])

\* ------------------------------------------------------------- specification

Next ==
    \/ create_student
    \/ assign_matric_number
    \/ list_students
    \/ get_student_by_matric
    \/ login

Spec == Init /\ [][Next]_vars

\* Every request an assign_matric_number handler can hold between its COUNT
\* and its UPDATE.
Requests == { InFlight(username, count) :
                username \in Usernames, count \in 0..MaxStudents }

\* The second half of the handler for one request: its UPDATE is answered and
\* the handler returns.
assign_finish(req) ==
    \/ assign_update_db_err(req)
    \/ assign_update_none(req)
    \/ assign_update_ok(req)

\* The runtime polls every spawned handler and the pool answers every
\* statement: a handler waiting on its UPDATE is not left waiting forever.
Fairness == \A req \in Requests : WF_vars(assign_finish(req))

SpecFair == Spec /\ Fairness

\* Requests one after another: a COUNT is issued only when no other
\* assign_matric_number request is between its COUNT and its UPDATE.
assign_count_ok_alone(username) ==
    /\ pending = EmptyBag
    /\ assign_count_ok(username)

assign_matric_number_seq ==
    \/ \E username \in Usernames :
          \/ assign_count_ok_alone(username)
          \/ assign_count_db_err(username)
    \/ \E req \in DOMAIN pending : assign_update_db_err(req)
    \/ \E req \in DOMAIN pending : assign_update_none(req)
    \/ \E req \in DOMAIN pending : assign_update_ok(req)

NextSeq ==
    \/ create_student
    \/ assign_matric_number_seq
    \/ list_students
    \/ get_student_by_matric
    \/ login

SpecSeq == Init /\ [][NextSeq]_vars

\* ------------------------------------------------- vocabulary of the claims

Matriculated(table) ==
    { i \in DOMAIN table : table[i].matric_number # None }

\* The token a matriculated row holds.
TokenOf(row) == row.matric_number[1]

DigitValue(ch) == CHOOSE d \in 0 .. 9 : DigitChars[d + 1] = ch

RECURSIVE ParseDigits(_)
ParseDigits(s) ==
    IF s = << >> THEN 0
    ELSE ParseDigits(SubSeq(s, 1, Len(s) - 1)) * 10 + DigitValue(s[Len(s)])

\* The sequence value of a token: the number after the MAT prefix.
TokenNumber(token) == ParseDigits(SubSeq(token, 4, Len(token)))

\* Order of two equally long digit strings, character by character.
RECURSIVE LexLess(_, _)
LexLess(a, b) ==
    /\ a # << >>
    /\ b # << >>
    /\ \/ DigitValue(Head(a)) < DigitValue(Head(b))
       \/ Head(a) = Head(b) /\ LexLess(Tail(a), Tail(b))

AssignmentConflict == into_response(BadRequest(AssignConflictMsg))

\* This step is the answered UPDATE of the in-flight request req.
AssignAnswered(req) ==
    /\ BagIn(req, pending)
    /\ pending' = pending (-) SetToBag({req})
    /\ resp'.op = "assign"
    /\ resp'.username = req.username

\* This step is an answered UPDATE that returned Ok.
AssignSucceeded(req) == AssignAnswered(req) /\ resp'.out.status = 200

TotalWins == wins["alice"] + wins["bob"] + wins["carol"]

\* ------------------------------------------------------------------- claims

\* C1: in every reachable state no two distinct students hold the same
\* matriculation number.
C1_DistinctMatricNumbers ==
    \A i, j \in Matriculated(store) :
        i # j => store[i].matric_number # store[j].matric_number

\* C2: an allocation whose count is stale when its conditional update runs
\* (another allocation completed after it read the count) fails with
\* AssignmentConflict and writes nothing, so of two allocations that read the
\* same count at most one succeeds.
C2_StaleCountFails ==
    [][ \A req \in BagToSet(pending) :
          (AssignAnswered(req) /\ req.count # count_matriculated(store))
             => (resp'.out = AssignmentConflict /\ store' = store) ]_vars

\* An answered UPDATE for an existing student: the first wins, the rest lose.
C3_StepOnSameStudent ==
    \A req \in BagToSet(pending) :
        (AssignAnswered(req) /\ RowsByUsername(store, req.username) # {})
           => IF wins[req.username] = 0
              THEN /\ resp'.out.status = 200
                   /\ wins'[req.username] = 1
                   /\ \A i \in RowsByUsername(store', req.username) :
                         /\ store'[i].matric_number = Some(resp'.token)
                         /\ resp'.out = OkJson(to_response(store'[i]))
              ELSE /\ resp'.out = AssignmentConflict
                   /\ wins' = wins
                   /\ store' = store

\* C3: of the requests that target the same existing student, the one whose
\* conditional update is answered while the student has no number succeeds and
\* stores its token; every one answered after that fails with
\* AssignmentConflict and writes nothing; so exactly one succeeds.
C3_OneWinnerPerStudent ==
    /\ [](\A u \in Usernames :
             /\ wins[u] <= 1
             /\ \A i \in RowsByUsername(store, u) :
                   (i \in Matriculated(store)) <=> (wins[u] = 1))
    /\ [][C3_StepOnSameStudent]_vars

\* C3 witness: a request lost against a request that read the same count: its
\* proposed token is the one the winner stored.
C3_Witness ==
    /\ resp.op = "assign"
    /\ resp.out = AssignmentConflict
    /\ wins[resp.username] = 1
    /\ \E i \in RowsByUsername(store, resp.username) :
          store[i].matric_number = Some(resp.token)

\* C4: a matriculation number, once present, keeps its value in every later
\* state: no step overwrites or clears it.
C4_MatricNeverChanges ==
    [][ \A i \in Matriculated(store) :
          /\ i \in DOMAIN store'
          /\ store'[i].username = store[i].username
          /\ store'[i].matric_number = store[i].matric_number ]_vars

\* C4 witness: a request proposed another token for a matriculated student and
\* the stored token is still the first one.
C4_Witness ==
    /\ resp.op = "assign"
    /\ resp.out = AssignmentConflict
    /\ \E i \in RowsByUsername(store, resp.username) :
          /\ store[i].matric_number = Some(matric_token(0))
          /\ resp.token = matric_token(1)

\* C5: a request whose target is already matriculated when its conditional
\* update runs fails with AssignmentConflict and leaves every record unchanged.
C5_AlreadyMatriculatedFails ==
    [][ \A req \in BagToSet(pending) :
          ( /\ AssignAnswered(req)
            /\ \E i \in RowsByUsername(store, req.username) : i \in Matriculated(store) )
             => (resp'.out = AssignmentConflict /\ store' = store) ]_vars

\* C5 witness: a request run after the student was matriculated, with no other
\* request in flight, was refused.
C5_Witness ==
    /\ resp.op = "assign"
    /\ resp.out.status = 400
    /\ pending = EmptyBag
    /\ \E i \in RowsByUsername(store, resp.username) :
          /\ i \in Matriculated(store)
          /\ TokenNumber(resp.token) = TokenNumber(TokenOf(store[i])) + 1

\* An allocation that finishes while no other is in flight.
C6_StepInSequence ==
    /\ \A req \in BagToSet(pending) :
          AssignSucceeded(req) =>
             LET token == resp'.out.json[1].matric_number[1]
             IN /\ SubSeq(token, 1, 3) = <<"M", "A", "T">>
                /\ Len(token) = 8
                /\ TokenNumber(token) = TotalWins + 1
                /\ wins' = [wins EXCEPT ![req.username] = @ + 1]
                /\ \A i \in Matriculated(store) :
                      LexLess(SubSeq(TokenOf(store[i]), 4, 8), SubSeq(token, 4, 8))
    /\ (resp'.op = "assign" /\ resp'.out.status # 200)
          => (wins' = wins /\ store' = store)

\* C6: when requests run one after another, the k-th successful allocation
\* returns MAT followed by k zero-padded to 5 digits, greater in the order of
\* the padded digits than every token assigned before; a failed allocation
\* assigns nothing and consumes no number.  Count 0 gives MAT00001 and
\* count 3 gives MAT00004.
C6_SequentialTokens ==
    /\ [][C6_StepInSequence]_vars
    /\ [](matric_token(0) = <<"M", "A", "T", "0", "0", "0", "0", "1">>)
    /\ [](matric_token(3) = <<"M", "A", "T", "0", "0", "0", "0", "4">>)

\* C6 witness: the third successful allocation in a row returned MAT00003.
C6_Witness ==
    /\ resp.op = "assign"
    /\ resp.out.status = 200
    /\ TotalWins = 3
    /\ resp.out.json[1].matric_number = Some(<<"M", "A", "T", "0", "0", "0", "0", "3">>)

\* C7: matriculation numbers are non-decreasing in assignment order: a token
\* committed later is never smaller than one committed before.
C7_NonDecreasingInCommitOrder ==
    [][ \A i \in DOMAIN store :
          (i \notin Matriculated(store) /\ i \in Matriculated(store'))
             => \A j \in Matriculated(store) :
                   TokenNumber(TokenOf(store[j])) <= TokenNumber(TokenOf(store'[i])) ]_vars

\* A registration that finishes.
C8_StepOfRegistration ==
    /\ (resp'.op = "register" /\ resp'.username # "")
          => IF RowsByUsername(store, resp'.username) # {}
             THEN /\ resp'.out = into_response(Conflict)
                  /\ store' = store
             ELSE /\ resp'.out.status = 200
                  /\ Len(store') = Len(store) + 1
                  /\ SubSeq(store', 1, Len(store)) = store
                  /\ Cardinality(RowsByUsername(store', resp'.username)) = 1
    /\ (resp'.op = "register" /\ resp'.out.status # 200) => store' = store

\* C8: usernames are unique in every reachable state; a registration that
\* reaches the store with a username that exists is refused with Conflict and
\* changes nothing; one with a new username succeeds and adds exactly one
\* record, so of the registrations with one username exactly one succeeds.
C8_UsernamesUnique ==
    /\ [](\A i, j \in DOMAIN store :
             i # j => store[i].username # store[j].username)
    /\ [][C8_StepOfRegistration]_vars

\* C8 witness: a registration with an existing username and other data was
\* refused, and the stored record still has its own name and digest.
C8_Witness ==
    /\ resp.op = "register"
    /\ resp.out = into_response(Conflict)
    /\ \E i \in RowsByUsername(store, resp.username) :
          /\ store[i].name # resp.name
          /\ store[i].password # hash(resp.password)

\* C9: a login with the credentials of a successful registration, answered by
\* the store at any later point, succeeds with that username and name and the
\* matriculation number currently stored.
C9_LoginAfterRegister ==
    \A payload \in registered :
        (resp.op = "login" /\ resp.username = payload[1] /\ resp.password = payload[2])
           => /\ resp.out.status = 200
              /\ \E i \in RowsByUsername(store, payload[1]) :
                    resp.out.json[1] =
                       [ username |-> payload[1], name |-> payload[3],
                         matric_number |-> store[i].matric_number ]

\* C9 witness: a login after the registration, a later registration of another
\* student and the assignment of a number returned the profile with the token.
C9_Witness ==
    /\ resp.op = "login"
    /\ resp.out.status = 200
    /\ resp.out.json[1].matric_number # None
    /\ Cardinality(registered) = 2

\* Why a login answered by the store is refused.
LoginCase(table, username, password) ==
    IF RowsByUsername(table, username) = {} THEN "absent"
    ELSE LET digest == table[First(RowsByUsername(table, username))].password
         IN IF digest = MalformedDigest THEN "malformed"
            ELSE IF digest # <<"$2b$", password>> THEN "mismatch"
            ELSE "match"

\* A login that finishes.
C10_StepOfLogin ==
    /\ ( /\ resp'.op = "login"
         /\ resp'.username # ""
         /\ LoginCase(store, resp'.username, resp'.password)
               \in {"absent", "mismatch", "malformed"} )
          => /\ resp'.out = [status |-> 401, text |-> <<"Invalid credentials">>,
                             json |-> << >>]
             /\ store' = store
    /\ (resp'.op = "login" /\ resp'.out.status # 200) => store' = store

\* C10: a login for a username that does not exist, with a password that does
\* not match, or against a malformed stored digest fails with the one outcome
\* Unauthorized, identical in the three cases; no failed login changes the store.
C10_LoginFailsAlike == [][C10_StepOfLogin]_vars

\* C10 witness: a login against a malformed stored digest was refused.
C10_Witness ==
    /\ resp.op = "login"
    /\ resp.out.status = 401
    /\ LoginCase(store, resp.username, resp.password) = "malformed"

\* C11: a request for a username that has no record gets the response a
\* request for a matriculated student gets (400, the same text), and the
\* store is unchanged: no record is created and no number is consumed.
C11_MissingStudentConflict ==
    [][ \A req \in BagToSet(pending) :
          (AssignAnswered(req) /\ RowsByUsername(store, req.username) = {})
             => /\ resp'.out =
                      [ status |-> 400,
                        text |-> <<"Bad request: ",
                                   "Student not found or already has matric number">>,
                        json |-> << >> ]
                /\ store' = store
                /\ wins' = wins ]_vars

\* C11 witness: a request for bob, who has no record, was refused while
\* another student holds a number.
C11_Witness ==
    /\ resp.op = "assign"
    /\ resp.out.status = 400
    /\ RowsByUsername(store, resp.username) = {}
    /\ Matriculated(store) # {}

\* The latest response reports an infrastructure fault: the handler ended on
\* a failure of hash or of a statement, not on an outcome of the domain.
InfraFailure ==
    /\ resp.op \in {"register", "assign", "list", "lookup", "login"}
    /\ resp.out.status # 200
    /\ resp.username = ""
    /\ resp.token = << >>

OpaqueInternalFailure ==
    [status |-> 500, text |-> <<"Internal server error">>, json |-> << >>]

\* C12: every infrastructure fault (hashing failure in register, storage fault
\* in any handler) yields the one opaque internal-failure response, which no
\* domain outcome shares and which carries no detail of the fault.
C12_InfraFaultsOpaque ==
    /\ InfraFailure => resp.out = OpaqueInternalFailure
    /\ (resp.op # "none" /\ ~ InfraFailure) => resp.out # OpaqueInternalFailure

\* What a step may do to the matric_number column.
C13_StepOnMatric ==
    /\ \A i \in DOMAIN store' \ DOMAIN store :
          /\ store'[i].matric_number = None
          /\ resp'.op = "register"
          /\ resp'.out = OkJson([ username |-> store'[i].username,
                                  name |-> store'[i].name,
                                  matric_number |-> None ])
    /\ \A i \in DOMAIN store \cap DOMAIN store' :
          store'[i].matric_number # store[i].matric_number
             => /\ store[i].matric_number = None
                /\ \E req \in BagToSet(pending) :
                      /\ AssignSucceeded(req)
                      /\ req.username = store[i].username
    /\ resp'.op \in {"register", "login", "list", "lookup"}
          => \A i \in DOMAIN store :
                store'[i].matric_number = store[i].matric_number

\* C13: every record is created unmatriculated; only a successful
\* assign-matriculation for the student's own username moves a student from
\* unmatriculated to matriculated; register, login, list and lookup change no
\* student's number.
C13_OnlyAssignMatriculates == [][C13_StepOnMatric]_vars

\* C13 witness: a registration stored an unmatriculated record while another
\* student already held a number.
C13_Witness ==
    /\ resp.op = "register"
    /\ resp.out.status = 200
    /\ store[Len(store)].matric_number = None
    /\ store[Len(store)].username = resp.username
    /\ Matriculated(store) # {}

\* The fields a profile may carry.
PublicFields == {"username", "name", "matric_number"}

\* A profile: the three public fields and nothing else, the number optional.
IsPublicProfile(body) ==
    /\ DOMAIN body = PublicFields
    /\ body.matric_number = None \/ Len(body.matric_number) = 1

\* C14: a successful response carries only the public fields username, name
\* and the optional matriculation number; the password digest and the row id
\* never appear.
C14_OnlyPublicFields ==
    /\ (resp.op \in {"register", "assign", "lookup", "login"}
          /\ resp.out.status = 200)
          => /\ Len(resp.out.json) = 1
             /\ IsPublicProfile(resp.out.json[1])
    /\ (resp.op = "list" /\ resp.out.status = 200)
          => /\ Len(resp.out.json) = 1
             /\ \A body \in resp.out.json[1] : IsPublicProfile(body)

\* C14 witness: a listing that returned a matriculated and an unmatriculated
\* student, both stored with a password digest and an id.
C14_Witness ==
    /\ resp.op = "list"
    /\ resp.out.status = 200
    /\ \E a, b \in resp.out.json[1] :
          a.matric_number # None /\ b.matric_number = None
    /\ \A i \in DOMAIN store : store[i].password # << >> /\ store[i].id = i

\* The three outcomes of an assignment whose UPDATE was attempted.
AssignOutcome(req, out) ==
    \/ /\ out.status = 200
       /\ out.json[1].username = req.username
       /\ out.json[1].matric_number = Some(matric_token(req.count))
    \/ out = AssignmentConflict
    \/ out = OpaqueInternalFailure

\* What a step may do to the requests in flight: leave them alone, add one that
\* holds the count just read, or finish one with its single UPDATE attempt.
C15_StepOfAssign ==
    /\ \/ pending' = pending
       \/ /\ \E username \in Usernames :
                pending' = pending (+) SetToBag(
                              {InFlight(username, count_matriculated(store))})
          /\ store' = store
          /\ resp'.op = "none"
       \/ \E req \in BagToSet(pending) :
             /\ pending' = pending (-) SetToBag({req})
             /\ resp'.op = "assign"
             /\ AssignOutcome(req, resp'.out)
             /\ resp'.out.status # 200 => store' = store
    /\ (resp'.op = "assign" /\ pending' = pending)
          => /\ resp'.out = OpaqueInternalFailure
             /\ store' = store

\* One of the handlers holding req returns in this step.
AssignFinished(req) ==
    /\ BagIn(req, pending)
    /\ pending' = pending (-) SetToBag({req})
    /\ resp'.op = "assign"

\* C15: an assignment reads the count once, attempts the conditional update
\* once and then finishes with success, AssignmentConflict or internal
\* failure; it never reads the count again to retry, and under fair scheduling
\* every started request completes whatever the other requests do.
C15_OneAttemptThenDone ==
    /\ [][C15_StepOfAssign]_vars
    /\ \A req \in Requests :
          \/ []<>(~ BagIn(req, pending))
          \/ []<><<AssignFinished(req)>>_vars

\* C15 witness: a request whose count went stale while another request was in
\* flight finished with AssignmentConflict and nothing is left in flight.
C15_Witness ==
    /\ resp.op = "assign"
    /\ resp.out = AssignmentConflict
    /\ RowsByUsername(store, resp.username) # {}
    /\ pending = EmptyBag
    /\ TotalWins > 0

\* The latest response answers a lookup that reached the store.
LookupAnswered == resp.op = "lookup" /\ resp.token # << >>

\* C16: lookup by matriculation number returns NotFound exactly when no
\* student holds the number; otherwise it returns the profile of a student
\* whose stored number is the requested token, and the student to whom an
\* assignment returned token t is the one a lookup of t returns.
C16_LookupFindsTheHolder ==
    LookupAnswered
       => /\ resp.out = into_response(NotFound)
                <=> RowsByMatric(store, resp.token) = {}
          /\ RowsByMatric(store, resp.token) # {}
                => /\ resp.out.status = 200
                   /\ \E i \in RowsByMatric(store, resp.token) :
                         resp.out = OkJson(to_response(store[i]))
                   /\ \A i \in RowsByMatric(store, resp.token) :
                         resp.out = OkJson(to_response(store[i]))

\* C17: in every reachable state each assigned matriculation number has a
\* sequence value k with 1 <= k <= M, M the number of students currently
\* matriculated: no token runs ahead of the count of matriculated students.
C17_TokensWithinCount ==
    \A i \in Matriculated(store) :
       /\ 1 <= TokenNumber(TokenOf(store[i]))
       /\ TokenNumber(TokenOf(store[i])) <= count_matriculated(store)

\* C17 witness: two students matriculated by overlapping requests; their
\* tokens repeat the value 1 and leave a gap at 2, both within M = 2.
C17_Witness ==
    /\ count_matriculated(store) = 2
    /\ \A i \in Matriculated(store) : TokenNumber(TokenOf(store[i])) = 1
    /\ pending = EmptyBag

\* C18: login, list-students and lookup-by-matric leave the whole store
\* unchanged whether they succeed or fail, and a register or assign request
\* that returns an error outcome leaves the store as it was: an error outcome
\* never comes with a partial write.
C18_ErrorsAndReadsWriteNothing ==
    [][ /\ resp'.op \in {"login", "list", "lookup"} => store' = store
        /\ (resp'.op \in {"register", "assign"} /\ resp'.out.status # 200)
              => store' = store ]_vars

\* C18 witness: an assign request ended with the internal failure while
\* another student was matriculated and a third record was still without a
\* number.
C18_Witness ==
    /\ resp.op = "assign"
    /\ resp.out.status = 500
    /\ Matriculated(store) # {}
    /\ Matriculated(store) # DOMAIN store

\* What a step may do to the records: keep every one with its id, username,
\* name and digest, and on a successful assignment write the returned token
\* into the number of the one record of that username.
C19_StepOnRecords ==
    /\ \A i \in DOMAIN store :
          /\ i \in DOMAIN store'
          /\ store'[i].id = store[i].id
          /\ store'[i].username = store[i].username
          /\ store'[i].name = store[i].name
          /\ store'[i].password = store[i].password
    /\ \A req \in BagToSet(pending) :
          AssignSucceeded(req)
             => \E i \in DOMAIN store :
                   /\ store[i].username = req.username
                   /\ store[i].matric_number = None
                   /\ store' = [store EXCEPT
                                  ![i].matric_number = Some(resp'.token)]

\* C19: the set of student records only grows and a record's username, name
\* and password digest never change; a successful assign changes only the
\* matricNumber of the one targeted record and nothing else in the store.
C19_RecordsOnlyGrow == [][C19_StepOnRecords]_vars

\* C19 witness: an assignment succeeded in a store of three records, one of
\* them still without a number and one matriculated before.
C19_Witness ==
    /\ resp.op = "assign"
    /\ resp.out.status = 200
    /\ Len(store) = 3
    /\ Cardinality(Matriculated(store)) = 2
    /\ TotalWins = 2

====
